---- MODULE Spec2Model ----
(***************************************************************************)
(* Runway-operation detector of API_active_runway.py: AircraftState (the   *)
(* bounded position history of one aircraft, its trends and the runway     *)
(* classifier) and RunwayMonitor.update_runway_usage (one polling cycle).  *)
(*                                                                         *)
(* Units.  Time is in whole seconds (datetime differences).  Latitude and  *)
(* longitude are in 1/6000 degree, so that the code's "degrees * 60" is    *)
(* hundredths of a nautical mile.  sin and cos are a table scaled by       *)
(* TrigScale.  A trend (a difference of two means over n = 2 or 3 values)  *)
(* is carried multiplied by TrendScale = 6, which keeps it an integer.     *)
(* Arithmetic is exact: the rounding of the code's floats is not modelled. *)
(* The variables marked ghost are not fields of the program; they record   *)
(* what a cycle did, for the properties at the end of the module.          *)
(***************************************************************************)
EXTENDS Integers, Sequences, FiniteSets, TLC

VARIABLES
    now,                 \* current_time of the last cycle (datetime.now())
    traffic_data,        \* the batch handed to the last cycle, in values() order
    aircraft_states,     \* callsign -> AircraftState
    approach_history,    \* runway -> (callsign -> time)
    current_approaches,  \* runway -> set of callsigns
    departure_history,   \* runway -> (callsign -> time)
    current_departures,  \* runway -> set of callsigns
    streak_start,        \* ghost: <<kind, runway, callsign>> -> time its streak began
    ended,               \* ghost: the <<kind, runway, callsign>> whose streak has ended
    pruned,              \* ghost: <<kind, runway, callsign, age>> cleaned by the last cycle
    swept,               \* ghost: <<callsign, idle time>> of the tracks the last cycle removed
    rerun,               \* ghost: the last cycle repeated the batch and clock of the one before
    cycles,              \* ghost: number of cycles run
    track,               \* a single AircraftState driven directly (SpecTrack)
    appended,            \* ghost: every sample passed to track's update
    probe,               \* an AircraftState and a field elevation to classify (SpecClassify)
    trends,              \* <<altitude trend, speed trend>> of probe, <<>> before they are read
    airport_data,        \* <<the runway table get_airport_info stored>>, <<>> before
    verdict,             \* what analyze_runway_ops returned or raised on probe, <<>> before
    angles,              \* <<aircraft track, runway true bearing>> in degrees (SpecAngle)
    track_diff           \* the track_diff computed from angles, None before

vars == <<now, traffic_data, aircraft_states, approach_history,
          current_approaches, departure_history, current_departures,
          streak_start, ended, pruned, swept, rerun, cycles, track, appended,
          probe, trends, airport_data, verdict, angles, track_diff>>

engineVars == <<now, traffic_data, aircraft_states, approach_history,
                current_approaches, departure_history, current_departures,
                streak_start, ended, pruned, swept, rerun, cycles>>

trackVars == <<track, appended>>

classifyVars == <<probe, trends, airport_data, verdict>>

angleVars == <<angles, track_diff>>

----------------------------------------------------------------------------
(* Bounds of the model *)

MaxCycles == 4
MaxUpdates == 12
MaxOlder == 3

----------------------------------------------------------------------------
(* Program constants *)

MaxPositions == 10
HistoryWindow == 1800
TrackTimeout == 120
TrendWindow == 3
TrigScale == 1000
TrendScale == 6
None == 0 - 999999
NaN == 0 - 999998

----------------------------------------------------------------------------
(* Small helpers *)

Abs(x) == IF x < 0 THEN 0 - x ELSE x

EmptyMap == [x \in {} |-> 0]

----------------------------------------------------------------------------
(* Runway and airport metadata: airport_data['runways'] in the order the   *)
(* dictionary iterates, and airport_data['airport']['elevation'].  One      *)
(* east-west strip: "09" is its west threshold, "27" its east threshold,    *)
(* 2 NM apart.                                                              *)

RunwayOrder == <<"09", "27">>

RunwayIds == {RunwayOrder[i] : i \in 1..Len(RunwayOrder)}

runway_data ==
    [r \in RunwayIds |->
        IF r = "09" THEN [lat |-> 0, lon |-> 0,   true_brg |-> 90]
                    ELSE [lat |-> 0, lon |-> 200, true_brg |-> 270]]

field_alt == 0

\* math.sin(math.radians(b)) * TrigScale
SinT(b) == CASE b = 0 -> 0 [] b = 90 -> 1000 [] b = 180 -> 0 [] b = 270 -> 0 - 1000

\* math.cos(math.radians(b)) * TrigScale
CosT(b) == CASE b = 0 -> 1000 [] b = 90 -> 0 [] b = 180 -> 0 - 1000 [] b = 270 -> 0

----------------------------------------------------------------------------
(* AircraftState *)

\* AircraftState.__init__
NewAircraftState == [positions |-> <<>>, last_update |-> None]

\* a deque that evicts one append too late
DequeAppendLate(d, x) ==
    IF Len(d) > MaxPositions THEN Append(Tail(d), x) ELSE Append(d, x)

\* deque(maxlen=MaxPositions).append
DequeAppend(d, x) ==
    IF Len(d) >= MaxPositions THEN Append(Tail(d), x) ELSE Append(d, x)

\* an update that stamps the track with the time of the sample before
updateStale(state, lat, lon, alt, gs, trk, timestamp, callsign) ==
    [positions |-> DequeAppend(state.positions,
                      [lat |-> lat, lon |-> lon, alt |-> alt, gs |-> gs,
                       track |-> trk, time |-> timestamp, callsign |-> callsign]),
     last_update |-> IF state.positions = <<>> THEN timestamp
                     ELSE state.positions[Len(state.positions)].time]

\* AircraftState.update
update(state, lat, lon, alt, gs, trk, timestamp, callsign) ==
    [positions |-> DequeAppend(state.positions,
                      [lat |-> lat, lon |-> lon, alt |-> alt, gs |-> gs,
                       track |-> trk, time |-> timestamp, callsign |-> callsign]),
     last_update |-> timestamp]

\* sum(p[f] for p in positions[i-1:j])
RECURSIVE SumField(_, _, _, _)
SumField(positions, f, i, j) ==
    IF i > j THEN 0 ELSE positions[i][f] + SumField(positions, f, i + 1, j)

\* a trend over windows of two samples
TrendOfPairs(positions, f) ==
    IF Len(positions) < 2 THEN 0
    ELSE (SumField(positions, f, Len(positions) - 1, Len(positions)) * TrendScale) \div 2
         - (SumField(positions, f, 1, 2) * TrendScale) \div 2

\* a trend with the two means swapped
TrendReversed(positions, f) ==
    IF Len(positions) < 2 THEN 0
    ELSE IF Len(positions) < TrendWindow THEN 0
    ELSE (SumField(positions, f, 1, TrendWindow) * TrendScale) \div TrendWindow
         - (SumField(positions, f, Len(positions) - TrendWindow + 1,
                     Len(positions)) * TrendScale) \div TrendWindow

\* the trend formula shared by get_altitude_trend and get_speed_trend:
\* sum(last)/len(last) - sum(first)/len(first), times TrendScale, where first
\* is positions[:3] and last is positions[-3:]
Trend(positions, f) ==
    IF Len(positions) < 2 THEN 0
    ELSE \* len(first) = len(last) = min(TrendWindow, len(positions))
         IF Len(positions) < TrendWindow
         THEN (SumField(positions, f, 1, Len(positions)) * TrendScale)
                  \div Len(positions)
              - (SumField(positions, f, 1, Len(positions)) * TrendScale)
                  \div Len(positions)
         ELSE (SumField(positions, f, Len(positions) - TrendWindow + 1,
                        Len(positions)) * TrendScale) \div TrendWindow
              - (SumField(positions, f, 1, TrendWindow) * TrendScale)
                  \div TrendWindow

\* AircraftState.get_altitude_trend, times TrendScale
get_altitude_trend(state) == Trend(state.positions, "alt")

\* AircraftState.get_speed_trend, times TrendScale
get_speed_trend(state) == Trend(state.positions, "gs")

\* a track_diff whose remainder takes the sign of the dividend
TrackDiffTruncated(trk, brg) ==
    Abs((IF trk - brg + 180 < 0 THEN 0 - ((0 - (trk - brg + 180)) % 360)
                                ELSE (trk - brg + 180) % 360) - 180)

\* abs((track - true_brg + 180) % 360 - 180); Python's % is non-negative
TrackDiff(trk, brg) == Abs(((trk - brg + 180) % 360) - 180)

\* |lon_diff * ry - lat_diff * rx| * 60, in hundredths of NM times TrigScale
CrossTrack(latest, rwy) ==
    Abs((latest.lon - rwy.lon) * CosT(rwy.true_brg)
        - (latest.lat - rwy.lat) * SinT(rwy.true_brg))

\* -(lon_diff * rx + lat_diff * ry) * 60, in hundredths of NM times TrigScale
AlongTrack(latest, rwy) ==
    0 - ((latest.lon - rwy.lon) * SinT(rwy.true_brg)
         + (latest.lat - rwy.lat) * CosT(rwy.true_brg))

\* a gate of 0.1 NM
BeyondGateWide(latest, rwy) == CrossTrack(latest, rwy) > 10 * TrigScale

\* cross_track > 0.05, the test that skips a runway
BeyondGate(latest, rwy) == CrossTrack(latest, rwy) > 5 * TrigScale

\* an arrival test that accepts a ground speed of exactly 50 kt
IsArrivalInclusiveSpeed(state, rwy, falt) ==
    LET latest == state.positions[Len(state.positions)]
    IN  /\ AlongTrack(latest, rwy) > 0
        /\ get_altitude_trend(state) < 0
        /\ get_speed_trend(state) < 10 * TrendScale
        /\ TrackDiff(latest.track, rwy.true_brg) < 5
        /\ latest.gs >= 50
        /\ latest.alt - falt < 3000

\* the arrival test of analyze_runway_ops for one runway
IsArrival(state, rwy, falt) ==
    LET latest == state.positions[Len(state.positions)]
    IN  /\ AlongTrack(latest, rwy) > 0
        /\ get_altitude_trend(state) < 0
        /\ get_speed_trend(state) < 10 * TrendScale
        /\ TrackDiff(latest.track, rwy.true_brg) < 5
        /\ latest.gs > 50
        /\ latest.alt - falt < 3000

\* a departure test that accepts an aircraft abeam the threshold
IsDepartureAbeam(state, rwy, falt) ==
    LET latest == state.positions[Len(state.positions)]
    IN  /\ AlongTrack(latest, rwy) <= 0
        /\ get_speed_trend(state) > 10 * TrendScale
        /\ latest.gs > 40
        /\ latest.alt - falt < 1000
        /\ TrackDiff(latest.track, rwy.true_brg) < 20

\* a departure test that also wants a climbing track
IsDepartureClimbing(state, rwy, falt) ==
    LET latest == state.positions[Len(state.positions)]
    IN  /\ AlongTrack(latest, rwy) < 0
        /\ get_altitude_trend(state) > 0
        /\ get_speed_trend(state) > 10 * TrendScale
        /\ latest.gs > 40
        /\ latest.alt - falt < 1000
        /\ TrackDiff(latest.track, rwy.true_brg) < 20

\* the departure test of analyze_runway_ops for one runway
IsDeparture(state, rwy, falt) ==
    LET latest == state.positions[Len(state.positions)]
    IN  /\ AlongTrack(latest, rwy) < 0
        /\ get_speed_trend(state) > 10 * TrendScale
        /\ latest.gs > 40
        /\ latest.alt - falt < 1000
        /\ TrackDiff(latest.track, rwy.true_brg) < 20

NoOp == <<"None", "None">>

\* an exception that leaves the function
Raised(exc) == <<"raise", exc>>

\* the loop of analyze_runway_ops from the i-th runway on
RECURSIVE AnalyzeFrom(_, _, _, _, _)
AnalyzeFrom(state, order, rdata, falt, i) ==
    IF i > Len(order) THEN NoOp
    ELSE LET rwy_id == order[i]
             rwy    == rdata[rwy_id]
             latest == state.positions[Len(state.positions)]
         IN  IF rwy.true_brg = None
                THEN Raised("TypeError")   \* math.radians(None)
             ELSE IF rwy.true_brg = NaN
                THEN \* every comparison with a NaN is false: no continue, no match
                     AnalyzeFrom(state, order, rdata, falt, i + 1)
             ELSE IF BeyondGate(latest, rwy)
                THEN AnalyzeFrom(state, order, rdata, falt, i + 1)
             ELSE IF IsArrival(state, rwy, falt) THEN <<"arrival", rwy_id>>
             ELSE IF IsDeparture(state, rwy, falt) THEN <<"departure", rwy_id>>
             ELSE AnalyzeFrom(state, order, rdata, falt, i + 1)

\* a classifier that wants two samples only
analyze_runway_opsShort(state, order, rdata, falt) ==
    IF Len(state.positions) < 2 THEN NoOp
    ELSE AnalyzeFrom(state, order, rdata, falt, 1)

\* a classifier that walks the runways from the last to the first
analyze_runway_opsBackwards(state, order, rdata, falt) ==
    IF Len(state.positions) < 3 THEN NoOp
    ELSE AnalyzeFrom(state, [i \in 1..Len(order) |-> order[Len(order) + 1 - i]],
                     rdata, falt, 1)

\* AircraftState.analyze_runway_ops
analyze_runway_ops(state, order, rdata, falt) ==
    IF Len(state.positions) < 3 THEN NoOp
    ELSE AnalyzeFrom(state, order, rdata, falt, 1)

----------------------------------------------------------------------------
(* RunwayMonitor.update_runway_usage, step by step *)

\* a cleaning that filters nothing
CleanHistoryKeepAll(hist, cutoff_time) == hist

\* a cleaning that keeps the entry that is exactly at the cutoff
CleanHistoryInclusive(hist, cutoff_time) ==
    [r \in DOMAIN hist |->
        [cs \in {c \in DOMAIN hist[r] : hist[r][c] >= cutoff_time} |-> hist[r][cs]]]

\* a cleaning whose window is an hour
CleanHistoryHour(hist, cutoff_time) ==
    [r \in DOMAIN hist |->
        [cs \in {c \in DOMAIN hist[r] : hist[r][c] > cutoff_time - HistoryWindow}
            |-> hist[r][cs]]]

\* a cleaning whose window is one second short
CleanHistoryEarly(hist, cutoff_time) ==
    [r \in DOMAIN hist |->
        [cs \in {c \in DOMAIN hist[r] : hist[r][c] > cutoff_time + 1} |-> hist[r][cs]]]

\* the dictionary comprehension that cleans one history map
CleanHistory(hist, cutoff_time) ==
    [r \in DOMAIN hist |->
        [cs \in {c \in DOMAIN hist[r] : hist[r][c] > cutoff_time} |-> hist[r][cs]]]

\* a null test that asks for all five fields to be null
HasNoneAll(aircraft) ==
    \A x \in {aircraft.lat, aircraft.lon, aircraft.track, aircraft.alt, aircraft.gs} :
        x = None

\* a null test that forgets the altitude
HasNoneNoAlt(aircraft) ==
    \E x \in {aircraft.lat, aircraft.lon, aircraft.track, aircraft.gs} : x = None

\* the null test on the five consumed fields of one record
HasNone(aircraft) ==
    \E x \in {aircraft.lat, aircraft.lon, aircraft.track, aircraft.alt, aircraft.gs} :
        x = None

\* a loop body that stamps the track of a skipped record
UpdateOneTouch(states, aircraft, current_time) ==
    IF HasNone(aircraft)
    THEN [cs \in DOMAIN states |->
             IF cs = aircraft.callsign
             THEN [states[cs] EXCEPT !.last_update = current_time]
             ELSE states[cs]]
    ELSE LET callsign == aircraft.callsign
             old == IF callsign \in DOMAIN states THEN states[callsign]
                    ELSE NewAircraftState
             new == update(old, aircraft.lat, aircraft.lon, aircraft.alt,
                           aircraft.gs, aircraft.track, current_time, callsign)
         IN  [cs \in DOMAIN states \cup {callsign} |->
                 IF cs = callsign THEN new ELSE states[cs]]

\* the body of the loop over traffic_data.values() for one record
UpdateOne(states, aircraft, current_time) ==
    IF HasNone(aircraft) THEN states
    ELSE LET callsign == aircraft.callsign
             old == IF callsign \in DOMAIN states THEN states[callsign]
                    ELSE NewAircraftState
             new == update(old, aircraft.lat, aircraft.lon, aircraft.alt,
                           aircraft.gs, aircraft.track, current_time, callsign)
         IN  [cs \in DOMAIN states \cup {callsign} |->
                 IF cs = callsign THEN new ELSE states[cs]]

\* the loop over traffic_data.values()
RECURSIVE UpdateStates(_, _, _)
UpdateStates(states, batch, current_time) ==
    IF batch = <<>> THEN states
    ELSE UpdateStates(UpdateOne(states, Head(batch), current_time),
                      Tail(batch), current_time)

\* a sweep that spares the tracks of the callsigns in a current set
CleanStatesKeepCurrent(states, current_time) ==
    [cs \in {c \in DOMAIN states :
                \/ current_time - states[c].last_update < TrackTimeout
                \/ \E r \in RunwayIds :
                       c \in current_approaches[r] \cup current_departures[r]}
        |-> states[cs]]

\* a sweep that removes nothing
CleanStatesKeepAll(states, current_time) == states

\* a sweep that keeps the track that is exactly TrackTimeout old
CleanStatesInclusive(states, current_time) ==
    [cs \in {c \in DOMAIN states :
                current_time - states[c].last_update <= TrackTimeout} |-> states[cs]]

\* the dictionary comprehension that cleans old aircraft states
CleanStates(states, current_time) ==
    [cs \in {c \in DOMAIN states :
                current_time - states[c].last_update < TrackTimeout} |-> states[cs]]

\* op_type, rwy of every aircraft state, as the analysis loop computes them
AnalyzeAll(states) ==
    [cs \in DOMAIN states |->
        analyze_runway_ops(states[cs], RunwayOrder, runway_data, field_alt)]

\* new sets that put a callsign on every runway
NewOpsAllRunways(ops, kind) ==
    [r \in RunwayIds |-> {cs \in DOMAIN ops : ops[cs][1] = kind}]

\* new sets that start from the previous cycle's sets instead of empty ones
NewOpsCarry(ops, kind) ==
    [r \in RunwayIds |->
        {cs \in DOMAIN ops : ops[cs] = <<kind, r>>}
        \cup (IF kind = "arrival" THEN current_approaches[r] ELSE current_departures[r])]

\* new_approaches / new_departures after the analysis loop
NewOps(ops, kind) ==
    [r \in RunwayIds |-> {cs \in DOMAIN ops : ops[cs] = <<kind, r>>}]

\* history writes that drop the entry of a callsign no longer in the set
WriteHistoryDropEnded(hist, new, current, current_time) ==
    [r \in RunwayIds |->
        [cs \in (DOMAIN hist[r] \ (current[r] \ new[r])) \cup (new[r] \ current[r]) |->
            IF cs \in new[r] \ current[r] THEN current_time ELSE hist[r][cs]]]

\* history writes made in every cycle of a streak
WriteHistoryAlways(hist, new, current, current_time) ==
    [r \in RunwayIds |->
        [cs \in DOMAIN hist[r] \cup new[r] |->
            IF cs \in new[r] THEN current_time ELSE hist[r][cs]]]

\* history writes that leave an existing entry alone
WriteHistoryKeepOld(hist, new, current, current_time) ==
    [r \in RunwayIds |->
        [cs \in DOMAIN hist[r] \cup (new[r] \ current[r]) |->
            IF cs \in DOMAIN hist[r] THEN hist[r][cs] ELSE current_time]]

\* the history writes of the analysis loop for one kind
WriteHistory(hist, new, current, current_time) ==
    [r \in RunwayIds |->
        [cs \in DOMAIN hist[r] \cup (new[r] \ current[r]) |->
            IF cs \in new[r] \ current[r] THEN current_time ELSE hist[r][cs]]]

\* history[rwy][callsign] = current_time
PutEntry(hist, rwy, callsign, current_time) ==
    [hist EXCEPT ![rwy] = [cs \in DOMAIN @ \cup {callsign} |->
                              IF cs = callsign THEN current_time ELSE @[cs]]]

\* a loop body that writes only for the first callsign added to a new set
AnalysisStepPartial(acc, callsign, ops, cur_a, cur_d, current_time) ==
    LET op_type == ops[callsign][1]
        rwy     == ops[callsign][2]
    IN  IF op_type = "arrival"
        THEN [acc EXCEPT
                 !.new_approaches[rwy] = @ \cup {callsign},
                 !.approach_history =
                     IF callsign \notin cur_a[rwy] /\ acc.new_approaches[rwy] = {}
                     THEN PutEntry(@, rwy, callsign, current_time) ELSE @]
        ELSE IF op_type = "departure"
        THEN [acc EXCEPT
                 !.new_departures[rwy] = @ \cup {callsign},
                 !.departure_history =
                     IF callsign \notin cur_d[rwy] /\ acc.new_departures[rwy] = {}
                     THEN PutEntry(@, rwy, callsign, current_time) ELSE @]
        ELSE acc

\* the body of the loop over aircraft_states.items() for one callsign, given
\* its classification: acc holds the two history maps and the two new sets
AnalysisStep(acc, callsign, ops, cur_a, cur_d, current_time) ==
    LET op_type == ops[callsign][1]
        rwy     == ops[callsign][2]
    IN  IF op_type = "arrival"
        THEN [acc EXCEPT
                 !.new_approaches[rwy] = @ \cup {callsign},
                 !.approach_history =
                     IF callsign \notin cur_a[rwy]
                     THEN PutEntry(@, rwy, callsign, current_time) ELSE @]
        ELSE IF op_type = "departure"
        THEN [acc EXCEPT
                 !.new_departures[rwy] = @ \cup {callsign},
                 !.departure_history =
                     IF callsign \notin cur_d[rwy]
                     THEN PutEntry(@, rwy, callsign, current_time) ELSE @]
        ELSE acc

\* the loop over aircraft_states.items(), the callsigns taken in the given order
RECURSIVE AnalysisLoop(_, _, _, _, _, _)
AnalysisLoop(acc, order, ops, cur_a, cur_d, current_time) ==
    IF order = <<>> THEN acc
    ELSE AnalysisLoop(AnalysisStep(acc, Head(order), ops, cur_a, cur_d, current_time),
                      Tail(order), ops, cur_a, cur_d, current_time)

\* membership of <<kind, runway, callsign>> in the current set of its kind
InCurrent(k, approaches, departures) ==
    IF k[1] = "arrival" THEN k[3] \in approaches[k[2]] ELSE k[3] \in departures[k[2]]

\* ghost: the time at which each streak now running began (None: no streak)
StreakStart(start, new_a, cur_a, new_d, cur_d, current_time) ==
    [k \in DOMAIN start |->
        IF ~InCurrent(k, new_a, new_d) THEN None
        ELSE IF InCurrent(k, cur_a, cur_d) THEN start[k]
        ELSE current_time]

\* ghost: the streaks that this cycle ends
StreaksEnded(keys, new_a, cur_a, new_d, cur_d) ==
    {k \in keys : InCurrent(k, cur_a, cur_d) /\ ~InCurrent(k, new_a, new_d)}

\* ghost: the entries of one history map that the cleaning removes
Pruned(kind, hist, cleaned, current_time) ==
    UNION {{<<kind, r, cs, current_time - hist[r][cs]>> :
               cs \in DOMAIN hist[r] \ DOMAIN cleaned[r]} : r \in DOMAIN hist}

\* ghost: the tracks that the cleaning of aircraft_states removes
Swept(updated, states, current_time) ==
    {<<cs, current_time - updated[cs].last_update>> :
        cs \in DOMAIN updated \ DOMAIN states}

\* a display that adds the aircraft now detected to the counts
SnapshotCountCurrent ==
    [r \in RunwayIds |->
        [arr_count |-> Cardinality(DOMAIN approach_history[r])
                       + Cardinality(current_approaches[r]),
         dep_count |-> Cardinality(DOMAIN departure_history[r])
                       + Cardinality(current_departures[r]),
         arriving  |-> current_approaches[r],
         departing |-> current_departures[r]]]

\* what display_runway_info shows per runway
Snapshot ==
    [r \in RunwayIds |->
        [arr_count |-> Cardinality(DOMAIN approach_history[r]),
         dep_count |-> Cardinality(DOMAIN departure_history[r]),
         arriving  |-> current_approaches[r],
         departing |-> current_departures[r]]]

----------------------------------------------------------------------------
(* Inputs: telemetry records (fields 1, 2, 3, 4, 5 and 13 of a record of    *)
(* the traffic API) and the batches the polling loop is fed with.           *)

Callsigns == {"A", "B"}

Rec(cs, lat, lon, trk, alt, gs) ==
    [callsign |-> cs, lat |-> lat, lon |-> lon, track |-> trk, alt |-> alt, gs |-> gs]

\* 3 NM before the threshold of 09, 0.01 NM off the centerline, heading 092
ApproachHigh(cs) == Rec(cs, 1, 0 - 300, 92, 2200, 130)

\* the same place, lower and slower
ApproachLow(cs) == Rec(cs, 1, 0 - 300, 92, 2000, 120)

\* the same place, at a ground speed that is not above 50 kt
ApproachSlow(cs) == Rec(cs, 1, 0 - 300, 92, 2000, 50)

\* 0.3 NM past the threshold of 09, 0.02 NM off the centerline, heading 080
RollSlow(cs) == Rec(cs, 2, 30, 80, 50, 0)

\* the same place, faster
RollFast(cs) == Rec(cs, 2, 30, 80, 50, 45)

\* the same place and speed, with a null altitude
NoAltitude(cs) == Rec(cs, 1, 0 - 300, 92, None, 120)

\* the batches of a cycle, each in the order of traffic_data.values()
Batches ==
    { <<>>,
      <<ApproachHigh("A"), ApproachLow("A")>>,
      <<ApproachSlow("A")>>,
      <<NoAltitude("A")>>,
      <<NoAltitude("A"), RollSlow("B"), RollFast("B")>> }

\* seconds between two cycles, around the track timeout
Steps == {0, TrackTimeout - 1, TrackTimeout, TrackTimeout + 1}

\* seconds between two cycles, around the history window
LongSteps == {HistoryWindow - 1, HistoryWindow, HistoryWindow + 1}

\* batches in which two aircraft fly the same approach
PairBatches ==
    { <<>>,
      <<ApproachHigh("A"), ApproachLow("A")>>,
      <<ApproachSlow("B")>>,
      <<ApproachHigh("B"), ApproachHigh("A"), ApproachLow("A"), ApproachLow("B")>> }

\* seconds between two cycles of the pair
PairSteps == {1, TrackTimeout}

\* a backtrack on the strip: 0.3 NM before the threshold of 27, heading 260
Roll27Slow(cs) == Rec(cs, 2, 170, 260, 50, 0)

\* the same place, faster
Roll27Fast(cs) == Rec(cs, 2, 170, 260, 50, 45)

\* four records of one aircraft on the approach in one batch
ApproachFour == <<ApproachHigh("A"), ApproachHigh("A"), ApproachLow("A"), ApproachLow("A")>>

\* batches of an aircraft that lands on 09 and then rolls from 09 or from 27
MoveBatches ==
    { <<>>,
      ApproachFour,
      <<RollSlow("A"), RollFast("A"), RollSlow("A"), RollFast("A")>>,
      <<Roll27Slow("A"), Roll27Fast("A"), Roll27Slow("A"), Roll27Fast("A")>> }

\* seconds between two cycles of the move
MoveSteps == {1, TrackTimeout, HistoryWindow}

\* the number of cycles after which the batches hold no valid record of "A"
QuietFrom == 1

\* batches without a valid record of "A"
QuietBatches ==
    { <<>>,
      <<NoAltitude("A")>>,
      <<NoAltitude("A"), RollSlow("B"), RollFast("B")>> }

\* seconds between two cycles while the clock keeps advancing
ExpirySteps == {HistoryWindow \div 3, HistoryWindow}

\* the samples fed to a single track
TrackSamples == {ApproachHigh("A"), ApproachLow("A")}

----------------------------------------------------------------------------
(* The engine *)

StreakKeys == {"arrival", "departure"} \X RunwayIds \X Callsigns

\* RunwayMonitor.__init__
Init ==
    /\ now = 0
    /\ traffic_data = <<>>
    /\ aircraft_states = EmptyMap
    /\ approach_history = [r \in RunwayIds |-> EmptyMap]
    /\ current_approaches = [r \in RunwayIds |-> {}]
    /\ departure_history = [r \in RunwayIds |-> EmptyMap]
    /\ current_departures = [r \in RunwayIds |-> {}]
    /\ streak_start = [k \in StreakKeys |-> None]
    /\ ended = {}
    /\ pruned = {}
    /\ swept = {}
    /\ rerun = FALSE
    /\ cycles = 0
    /\ track = NewAircraftState
    /\ appended = <<>>
    /\ probe = [state |-> NewAircraftState, falt |-> field_alt]
    /\ trends = <<>>
    /\ airport_data = <<>>
    /\ verdict = <<>>
    /\ angles = <<0, 0>>
    /\ track_diff = None

\* RunwayMonitor.update_runway_usage, called by run() with a fresh batch
update_runway_usage(batch, current_time) ==
    /\ cycles < MaxCycles
    /\ \E ah \in {CleanHistory(approach_history, current_time - HistoryWindow)},
          dh \in {CleanHistory(departure_history, current_time - HistoryWindow)},
          updated \in {UpdateStates(aircraft_states, batch, current_time)} :
          \E states \in {CleanStates(updated, current_time)} :
          \E ops \in {AnalyzeAll(states)} :
          \E new_approaches \in {NewOps(ops, "arrival")},
             new_departures \in {NewOps(ops, "departure")} :
              /\ now' = current_time
              /\ traffic_data' = batch
              /\ aircraft_states' = states
              /\ approach_history' =
                     WriteHistory(ah, new_approaches, current_approaches, current_time)
              /\ departure_history' =
                     WriteHistory(dh, new_departures, current_departures, current_time)
              /\ current_approaches' = new_approaches
              /\ current_departures' = new_departures
              /\ streak_start' = StreakStart(streak_start, new_approaches,
                                     current_approaches, new_departures,
                                     current_departures, current_time)
              /\ ended' = ended \cup StreaksEnded(StreakKeys, new_approaches,
                                         current_approaches, new_departures,
                                         current_departures)
              /\ pruned' = Pruned("arrival", approach_history, ah, current_time)
                           \cup Pruned("departure", departure_history, dh, current_time)
              /\ swept' = Swept(updated, states, current_time)
              /\ rerun' = (cycles > 0 /\ batch = traffic_data /\ current_time = now)
              /\ cycles' = cycles + 1
              /\ UNCHANGED <<trackVars, classifyVars, angleVars>>

\* cycles a few seconds to two minutes apart
Next == \E batch \in Batches, dt \in Steps : update_runway_usage(batch, now + dt)

Spec == Init /\ [][Next]_vars

\* cycles half an hour apart
NextLong == \E batch \in Batches, dt \in LongSteps : update_runway_usage(batch, now + dt)

SpecLong == Init /\ [][NextLong]_vars

\* cycles fed with the batches of the pair
NextPair == \E batch \in PairBatches, dt \in PairSteps : update_runway_usage(batch, now + dt)

SpecPair == Init /\ [][NextPair]_vars

\* cycles fed with the batches of the move
NextMove == \E batch \in MoveBatches, dt \in MoveSteps : update_runway_usage(batch, now + dt)

SpecMove == Init /\ [][NextMove]_vars

\* cycles that see "A" on the approach and then never again; the polling
\* loop of run() never stops
NextExpiry ==
    \E batch \in (IF cycles < QuietFrom THEN {ApproachFour} ELSE QuietBatches),
       dt \in ExpirySteps : update_runway_usage(batch, now + dt)

SpecExpiry == Init /\ [][NextExpiry]_vars /\ WF_vars(NextExpiry)

\* AircraftState.update called on one track, one clock tick per call
track_update(aircraft) ==
    /\ Len(appended) < MaxUpdates
    /\ track' = update(track, aircraft.lat, aircraft.lon, aircraft.alt, aircraft.gs,
                       aircraft.track, Len(appended) + 1, aircraft.callsign)
    /\ appended' = Append(appended,
                      [lat |-> aircraft.lat, lon |-> aircraft.lon, alt |-> aircraft.alt,
                       gs |-> aircraft.gs, track |-> aircraft.track,
                       time |-> Len(appended) + 1, callsign |-> aircraft.callsign])
    /\ UNCHANGED <<engineVars, classifyVars, angleVars>>

NextTrack == \E aircraft \in TrackSamples : track_update(aircraft)

SpecTrack == Init /\ [][NextTrack]_vars

----------------------------------------------------------------------------
(* The classifier on its own: one track, one runway table *)

\* one runway, the west threshold of the strip
Single ==
    [order |-> <<"09">>,
     data  |-> [r \in {"09"} |-> [lat |-> 0, lon |-> 0, true_brg |-> 90]]]

\* the strip of the engine
Strip == [order |-> RunwayOrder, data |-> runway_data]

\* two thresholds on one centerline with one bearing, 1 NM apart
InLineData ==
    [r \in {"09", "09X"} |->
        IF r = "09" THEN [lat |-> 0, lon |-> 0,   true_brg |-> 90]
                    ELSE [lat |-> 0, lon |-> 100, true_brg |-> 90]]

\* the east one first in the dictionary
InLine == [order |-> <<"09X", "09">>, data |-> InLineData]

\* the west one first in the dictionary
InLineReversed == [order |-> <<"09", "09X">>, data |-> InLineData]

\* a runway whose true bearing is null
NoBearing ==
    [order |-> <<"09">>,
     data  |-> [r \in {"09"} |-> [lat |-> 0, lon |-> 0, true_brg |-> None]]]

\* a runway whose true bearing is NaN
NanBearing ==
    [order |-> <<"09">>,
     data  |-> [r \in {"09"} |-> [lat |-> 0, lon |-> 0, true_brg |-> NaN]]]

\* the tables the airport-info service may answer with
RunwayTables == {Single, Strip, InLine, InLineReversed, NoBearing, NanBearing}

\* the status field of the answer
Statuses == {200, 404}

\* airport_data['airport']['elevation']
Elevations == {0, 1000}

\* the newest sample of the track: before the threshold of 09 at 0.01, 0.05
\* and 0.08 NM from the centerline, on the threshold, and past both thresholds
ProbePlaces == {<<1, 0 - 300>>, <<5, 0 - 300>>, <<8, 0 - 300>>, <<0, 0>>, <<2, 130>>}

ProbeHeadings == {92, 95, 70}

ProbeAltitudes == {3000, 2000, 1000}

ProbeSpeeds == {120, 50, 45, 40}

\* the older samples of the track: altitude and ground speed
OlderAltitudes == {3200, 2000, 0}

OlderSpeeds == {130, 90, 15, 0}

\* AircraftState.update called k times with the older sample, then once
\* with the newest, one clock tick per call
RECURSIVE ProbeTrack(_, _, _, _, _, _, _)
ProbeTrack(k, oalt, ogs, place, trk, alt, gs) ==
    IF k = 0
    THEN update(NewAircraftState, place[1], place[2], alt, gs, trk, 1, "A")
    ELSE LET older == ProbeTrack(k - 1, oalt, ogs, <<1, 0 - 300>>, 92, oalt, ogs)
         IN  update(older, place[1], place[2], alt, gs, trk, k + 1, "A")

ProbeTracks ==
    {NewAircraftState}
    \cup { ProbeTrack(k, oalt, ogs, place, trk, alt, gs) :
              k \in 0..MaxOlder, oalt \in OlderAltitudes, ogs \in OlderSpeeds,
              place \in ProbePlaces, trk \in ProbeHeadings,
              alt \in ProbeAltitudes, gs \in ProbeSpeeds }

\* a monitor not yet loaded, and one track to classify
InitClassify ==
    /\ now = 0
    /\ traffic_data = <<>>
    /\ aircraft_states = EmptyMap
    /\ approach_history = [r \in RunwayIds |-> EmptyMap]
    /\ current_approaches = [r \in RunwayIds |-> {}]
    /\ departure_history = [r \in RunwayIds |-> EmptyMap]
    /\ current_departures = [r \in RunwayIds |-> {}]
    /\ streak_start = [k \in StreakKeys |-> None]
    /\ ended = {}
    /\ pruned = {}
    /\ swept = {}
    /\ rerun = FALSE
    /\ cycles = 0
    /\ track = NewAircraftState
    /\ appended = <<>>
    /\ probe \in [state : ProbeTracks, falt : Elevations]
    /\ trends = <<>>
    /\ airport_data = <<>>
    /\ verdict = <<>>
    /\ angles = <<0, 0>>
    /\ track_diff = None

\* RunwayMonitor.get_airport_info: the answer is stored as it came
get_airport_info(status, table) ==
    /\ airport_data = <<>>
    /\ verdict = <<>>
    /\ IF status # 200
          THEN /\ verdict' = Raised("Exception")
               /\ UNCHANGED airport_data
          ELSE /\ airport_data' = <<table>>
               /\ UNCHANGED verdict
    /\ UNCHANGED <<engineVars, trackVars, angleVars, probe, trends>>

\* get_altitude_trend and get_speed_trend called on the track
get_trends ==
    /\ airport_data # <<>>
    /\ trends = <<>>
    /\ trends' = <<get_altitude_trend(probe.state), get_speed_trend(probe.state)>>
    /\ UNCHANGED <<engineVars, trackVars, angleVars, probe, airport_data, verdict>>

\* analyze_runway_ops called on the track with the loaded table
classify ==
    /\ trends # <<>>
    /\ verdict = <<>>
    /\ verdict' = analyze_runway_ops(probe.state, airport_data[1].order,
                                     airport_data[1].data, probe.falt)
    /\ UNCHANGED <<engineVars, trackVars, angleVars, probe, trends, airport_data>>

NextClassify ==
    \/ \E status \in Statuses, table \in RunwayTables : get_airport_info(status, table)
    \/ get_trends
    \/ classify

SpecClassify == InitClassify /\ [][NextClassify]_vars

----------------------------------------------------------------------------
(* The track alignment on its own: one heading, one bearing *)

\* the modulus of line 156
FullCircle == 360

\* integer headings and bearings
Degrees == 0..(FullCircle - 1)

\* a heading and a bearing, nothing computed yet
InitAngle ==
    /\ now = 0
    /\ traffic_data = <<>>
    /\ aircraft_states = EmptyMap
    /\ approach_history = [r \in RunwayIds |-> EmptyMap]
    /\ current_approaches = [r \in RunwayIds |-> {}]
    /\ departure_history = [r \in RunwayIds |-> EmptyMap]
    /\ current_departures = [r \in RunwayIds |-> {}]
    /\ streak_start = [k \in StreakKeys |-> None]
    /\ ended = {}
    /\ pruned = {}
    /\ swept = {}
    /\ rerun = FALSE
    /\ cycles = 0
    /\ track = NewAircraftState
    /\ appended = <<>>
    /\ probe = [state |-> NewAircraftState, falt |-> field_alt]
    /\ trends = <<>>
    /\ airport_data = <<>>
    /\ verdict = <<>>
    /\ angles \in Degrees \X Degrees
    /\ track_diff = None

\* line 156 of analyze_runway_ops
compute_track_diff ==
    /\ track_diff = None
    /\ track_diff' = TrackDiff(angles[1], angles[2])
    /\ UNCHANGED <<engineVars, trackVars, classifyVars, angles>>

NextAngle == compute_track_diff

SpecAngle == InitAngle /\ [][NextAngle]_vars

----------------------------------------------------------------------------
(* Properties *)

Min(a, b) == IF a < b THEN a ELSE b

\* a step of the behaviour that is a polling cycle
CycleStep == cycles' = cycles + 1

\* the history map that holds the entries of <<kind, runway, callsign>>
HistoryOf(k) ==
    IF k[1] = "arrival" THEN approach_history[k[2]] ELSE departure_history[k[2]]

IsCurrent(k) == InCurrent(k, current_approaches, current_departures)

\* none of the five consumed fields of the record is null
IsValidRecord(a) ==
    /\ a.lat # None
    /\ a.lon # None
    /\ a.track # None
    /\ a.alt # None
    /\ a.gs # None

\* the batch gives no sample to the callsign
NoSampleFor(cs, batch) ==
    \A i \in 1..Len(batch) : batch[i].callsign = cs => ~IsValidRecord(batch[i])

\* number of samples the batch gives to the callsign
SamplesFor(cs, batch) ==
    Cardinality({i \in 1..Len(batch) : batch[i].callsign = cs /\ IsValidRecord(batch[i])})

\* the entry of cs in map r before the step is not in the map after it
EntryGone(h, hp, r, cs) == cs \notin DOMAIN hp[r] \/ hp[r][cs] # h[r][cs]

\* the entry of cs in map r is the same before and after the step
EntryKept(h, hp, r, cs) == cs \in DOMAIN hp[r] /\ hp[r][cs] = h[r][cs]

(* C1, as stated: a callsign that is in a current set has an entry in the   *)
(* history map of that runway and kind, and the timestamp of the entry is   *)
(* the time of the first cycle of the streak now running.                   *)
C1_StreakEntryAlwaysKept ==
    \A k \in StreakKeys :
        IsCurrent(k) => /\ k[3] \in DOMAIN HistoryOf(k)
                        /\ HistoryOf(k)[k[3]] = streak_start[k]

(* C1, amended: while a streak runs, the history entry of the callsign is   *)
(* present with the time of the first cycle of the streak as long as that   *)
(* cycle is less than 30 minutes old (it is not rewritten in cycles 2..N);  *)
(* from 30 minutes on the entry is absent and is not written again.         *)
C1_StreakEntryKeptWithinWindow ==
    \A k \in StreakKeys :
        IsCurrent(k) =>
            IF now - streak_start[k] < 1800
            THEN /\ k[3] \in DOMAIN HistoryOf(k)
                 /\ HistoryOf(k)[k[3]] = streak_start[k]
            ELSE k[3] \notin DOMAIN HistoryOf(k)

\* a streak in a later cycle than its first, its entry 1799 s old
C1_Witness ==
    \E k \in StreakKeys :
        /\ IsCurrent(k)
        /\ now - streak_start[k] = 1799
        /\ k[3] \in DOMAIN HistoryOf(k)
        /\ HistoryOf(k)[k[3]] = streak_start[k]

(* C2: a callsign that was in a current set, left it, and is classified     *)
(* into it again by a cycle at time t has, after that cycle, a history      *)
(* entry on that runway with timestamp t.                                   *)
C2_RestartRewritesEntry ==
    [][\A k \in ended :
          (/\ CycleStep
           /\ ~IsCurrent(k)
           /\ InCurrent(k, current_approaches', current_departures'))
          => /\ k[3] \in DOMAIN HistoryOf(k)'
             /\ HistoryOf(k)'[k[3]] = now']_vars

\* a streak that ended earlier and has just restarted, later than time 0
C2_Witness ==
    \E k \in ended :
        /\ IsCurrent(k)
        /\ now > 0
        /\ streak_start[k] = now
        /\ k[3] \in DOMAIN HistoryOf(k)
        /\ HistoryOf(k)[k[3]] = now

(* C3, as stated: a cycle that repeats the batch and the clock value of the *)
(* cycle before it leaves the output snapshot as that cycle left it.        *)
C3_RerunSameSnapshot ==
    [][(/\ cycles > 0
        /\ CycleStep
        /\ traffic_data' = traffic_data
        /\ now' = now)
       => Snapshot' = Snapshot]_vars

(* C3, amended: a cycle that repeats the batch and the clock value of the   *)
(* cycle before it leaves the output snapshot unchanged when the batch      *)
(* holds no record with all five fields present.                            *)
C3_RerunSameSnapshotNoSample ==
    [][(/\ cycles > 0
        /\ CycleStep
        /\ traffic_data' = traffic_data
        /\ now' = now
        /\ \A i \in 1..Len(traffic_data') : ~IsValidRecord(traffic_data'[i]))
       => Snapshot' = Snapshot]_vars

\* a repeated cycle over a batch of null records, with an aircraft on approach
C3_Witness ==
    /\ rerun
    /\ traffic_data # <<>>
    /\ \A i \in 1..Len(traffic_data) : ~IsValidRecord(traffic_data[i])
    /\ \E r \in RunwayIds : current_approaches[r] # {}

(* C4: after n updates the buffer of a track holds the last min(n, 10)      *)
(* samples passed to update, in the order they were passed.                 *)
C4_BufferIsLatestSamples ==
    /\ Len(track.positions) = Min(Len(appended), 10)
    /\ track.positions =
           SubSeq(appended, Len(appended) - Min(Len(appended), 10) + 1, Len(appended))

\* an 11th sample has arrived and the first one is gone
C4_Witness ==
    /\ Len(appended) = 11
    /\ Len(track.positions) = 10
    /\ track.positions[1] = appended[2]
    /\ track.positions[1] # appended[1]

\* C5 on one history map: h before the cycle, hp after it, at time t
AgedEntries(h, hp, cur, curp, t) ==
    \A r \in RunwayIds : \A cs \in DOMAIN h[r] :
        /\ t - h[r][cs] = 1801 => EntryGone(h, hp, r, cs)
        /\ (t - h[r][cs] = 1799 /\ cs \notin curp[r] \ cur[r]) => EntryKept(h, hp, r, cs)

(* C5: a cycle at time now removes the history entry whose timestamp is     *)
(* 30 minutes + 1 second before now, and keeps, with its timestamp, the     *)
(* entry whose timestamp is 30 minutes - 1 second before now unless the     *)
(* cycle overwrites it.                                                     *)
C5_PruneAroundWindow ==
    [][CycleStep =>
          /\ AgedEntries(approach_history, approach_history',
                         current_approaches, current_approaches', now')
          /\ AgedEntries(departure_history, departure_history',
                         current_departures, current_departures', now')]_vars

\* the last cycle removed an entry that was 1801 s old
C5_Witness == \E p \in pruned : p[4] = 1801

\* C6 as stated, on one history map
ExactKept(h, hp, t) ==
    \A r \in RunwayIds : \A cs \in DOMAIN h[r] :
        t - h[r][cs] = 1800 => cs \in DOMAIN hp[r]

(* C6, as stated: an entry that is exactly 30 minutes old at the time of a  *)
(* cycle is retained by that cycle.                                         *)
C6_ExactWindowRetained ==
    [][CycleStep =>
          /\ ExactKept(approach_history, approach_history', now')
          /\ ExactKept(departure_history, departure_history', now')]_vars

\* C6 amended, on one history map
PrunedFromWindowOn(h, hp, cur, curp, t) ==
    \A r \in RunwayIds : \A cs \in DOMAIN h[r] :
        /\ t - h[r][cs] >= 1800 => EntryGone(h, hp, r, cs)
        /\ (t - h[r][cs] < 1800 /\ cs \notin curp[r] \ cur[r]) => EntryKept(h, hp, r, cs)

(* C6, amended: a cycle removes an entry when now - timestamp is 30 minutes *)
(* or more, so an entry exactly 30 minutes old is removed; a younger entry  *)
(* is kept unless the cycle overwrites it.                                  *)
C6_PrunedAtExactWindow ==
    [][CycleStep =>
          /\ PrunedFromWindowOn(approach_history, approach_history',
                                current_approaches, current_approaches', now')
          /\ PrunedFromWindowOn(departure_history, departure_history',
                                current_departures, current_departures', now')]_vars

\* the last cycle removed an entry that was exactly 1800 s old
C6_Witness == \E p \in pruned : p[4] = 1800

(* C7: a cycle at time now removes a track whose last_update is more than   *)
(* 120 s before now, and keeps a track whose last_update is 119 s before    *)
(* now with its samples unchanged (the track getting no sample in the       *)
(* cycle).                                                                  *)
C7_SweepAroundTimeout ==
    [][CycleStep =>
          \A cs \in DOMAIN aircraft_states :
              NoSampleFor(cs, traffic_data') =>
                  /\ now' - aircraft_states[cs].last_update > 120
                         => cs \notin DOMAIN aircraft_states'
                  /\ now' - aircraft_states[cs].last_update = 119
                         => /\ cs \in DOMAIN aircraft_states'
                            /\ aircraft_states'[cs] = aircraft_states[cs]]_vars

\* after a cycle that gave it no sample, a track idle for 119 s is in the table
C7_Witness ==
    \E cs \in DOMAIN aircraft_states :
        /\ now - aircraft_states[cs].last_update = 119
        /\ NoSampleFor(cs, traffic_data)
        /\ aircraft_states[cs].positions # <<>>

(* C8, as stated: a track whose last_update is exactly 120 s before the     *)
(* cycle time is retained by the cycle.                                     *)
C8_ExactTimeoutRetained ==
    [][CycleStep =>
          \A cs \in DOMAIN aircraft_states :
              (/\ NoSampleFor(cs, traffic_data')
               /\ now' - aircraft_states[cs].last_update = 120)
              => cs \in DOMAIN aircraft_states']_vars

(* C8, amended: the sweep removes a track when its last_update is 120 s old *)
(* or more and only then: a track whose last_update is exactly 120 s before *)
(* the cycle time is removed and is in no current set after the cycle.      *)
C8_SweptAtExactTimeout ==
    [][CycleStep =>
          \A cs \in DOMAIN aircraft_states :
              NoSampleFor(cs, traffic_data') =>
                  /\ now' - aircraft_states[cs].last_update = 120
                         => /\ cs \notin DOMAIN aircraft_states'
                            /\ \A r \in RunwayIds :
                                   /\ cs \notin current_approaches'[r]
                                   /\ cs \notin current_departures'[r]
                  /\ cs \notin DOMAIN aircraft_states'
                         => now' - aircraft_states[cs].last_update >= 120]_vars

\* the last cycle removed a track that was idle for exactly 120 s
C8_Witness == \E w \in swept : w[2] = 120

(* C9: after every cycle, the current arrivals of a runway are the          *)
(* callsigns of the tracks in the table that classify as an arrival on that *)
(* runway, and the current departures those that classify as a departure    *)
(* on it.                                                                   *)
C9_CurrentSetsAreThisCycle ==
    \A r \in RunwayIds : \A cs \in Callsigns :
        /\ cs \in current_approaches[r]
               <=> /\ cs \in DOMAIN aircraft_states
                   /\ analyze_runway_ops(aircraft_states[cs], RunwayOrder,
                                         runway_data, field_alt) = <<"arrival", r>>
        /\ cs \in current_departures[r]
               <=> /\ cs \in DOMAIN aircraft_states
                   /\ analyze_runway_ops(aircraft_states[cs], RunwayOrder,
                                         runway_data, field_alt) = <<"departure", r>>

\* a callsign that was in a current set after the cycle before still has its
\* track and is in no current set
C9_Witness ==
    \E k \in ended :
        /\ k[3] \in DOMAIN aircraft_states
        /\ Len(aircraft_states[k[3]].positions) >= 3
        /\ \A r \in RunwayIds :
               k[3] \notin current_approaches[r] \cup current_departures[r]

(* C10: a record with a null among its five fields changes nothing: its     *)
(* callsign gets no track and no sample from it, no null is stored, and the *)
(* other records of the batch are processed.                                *)
C10_NullRecordSkipped ==
    [][CycleStep =>
          /\ \A cs \in Callsigns :
                 NoSampleFor(cs, traffic_data') /\ cs \in DOMAIN aircraft_states'
                     => /\ cs \in DOMAIN aircraft_states
                        /\ aircraft_states'[cs] = aircraft_states[cs]
          /\ \A cs \in DOMAIN aircraft_states' :
                 /\ Len(aircraft_states'[cs].positions) =
                        Min(10, SamplesFor(cs, traffic_data')
                                + (IF cs \in DOMAIN aircraft_states
                                   THEN Len(aircraft_states[cs].positions) ELSE 0))
                 /\ \A i \in 1..Len(aircraft_states'[cs].positions) :
                        IsValidRecord(aircraft_states'[cs].positions[i])
          /\ \A i \in 1..Len(traffic_data') :
                 IsValidRecord(traffic_data'[i])
                     => /\ traffic_data'[i].callsign \in DOMAIN aircraft_states'
                        /\ aircraft_states'[traffic_data'[i].callsign].last_update = now'
         ]_vars

\* the first cycle got a null record for A followed by two records for B
C10_Witness ==
    /\ cycles = 1
    /\ Len(traffic_data) = 3
    /\ ~IsValidRecord(traffic_data[1])
    /\ traffic_data[1].callsign \notin DOMAIN aircraft_states
    /\ traffic_data[3].callsign \in DOMAIN aircraft_states
    /\ Len(aircraft_states[traffic_data[3].callsign].positions) = 2

----------------------------------------------------------------------------
(* Properties of the classifier *)

\* the table that was loaded
Table == airport_data[1]

\* the track that is classified, and its newest sample
Positions == probe.state.positions

Latest == Positions[Len(Positions)]

\* a table was loaded and the classifier has answered
Classified == airport_data # <<>> /\ verdict # <<>>

\* every runway of the table has a finite true bearing
WellFormed(table) ==
    \A i \in 1..Len(table.order) : table.data[table.order[i]].true_brg \notin {None, NaN}

\* the runways of the table that are within 0.05 NM of the newest sample
WithinGate ==
    {i \in 1..Len(Table.order) :
        CrossTrack(Latest, Table.data[Table.order[i]]) <= 5 * TrigScale}

\* C11: a track with fewer than three samples gets "no operation", and no
\* exception, whatever the runway table, the field elevation and the samples
C11_ShortTrackNoOperation ==
    (Classified /\ Len(Positions) < 3) => verdict = NoOp

\* a two-sample track was classified against a table with a null bearing
C11_Witness ==
    /\ Classified
    /\ Len(Positions) = 2
    /\ Table = NoBearing
    /\ verdict = NoOp

ArrivalRules(i) ==
    LET rwy == Table.data[Table.order[i]]
    IN  /\ AlongTrack(Latest, rwy) > 0
        /\ trends[1] < 0
        /\ trends[2] < 10 * TrendScale
        /\ Abs(((Latest.track - rwy.true_brg + 180) % 360) - 180) < 5
        /\ Latest.gs > 50
        /\ Latest.alt - probe.falt < 3000

\* the five departure conditions for runway i of the table, each strict
DepartureRules(i) ==
    LET rwy == Table.data[Table.order[i]]
    IN  /\ AlongTrack(Latest, rwy) < 0
        /\ trends[2] > 10 * TrendScale
        /\ Latest.gs > 40
        /\ Latest.alt - probe.falt < 1000
        /\ Abs(((Latest.track - rwy.true_brg + 180) % 360) - 180) < 20

\* C13: with three samples or more and a single runway within the gate, the
\* answer is an arrival on that runway exactly when the along-track distance
\* is positive, the altitude trend negative, the speed trend below 10 kt, the
\* track within 5 degrees of the bearing, the ground speed above 50 kt and
\* the height above the field below 3000 ft
C13_ArrivalIffSixRules ==
    (Classified /\ Len(Positions) >= 3 /\ WellFormed(Table)) =>
        \A i \in WithinGate :
            WithinGate = {i} =>
                (verdict = <<"arrival", Table.order[i]>> <=> ArrivalRules(i))

\* an arrival was returned for a track exactly 0.05 NM off the centerline
C13_Witness ==
    /\ Classified
    /\ Table = Single
    /\ verdict = <<"arrival", "09">>
    /\ Latest.lat = 5

\* C14: with three samples or more and a single runway within the gate, the
\* answer is a departure from that runway exactly when the along-track
\* distance is negative, the speed trend above 10 kt, the ground speed above
\* 40 kt, the height above the field below 1000 ft and the track within 20
\* degrees of the bearing; the altitude trend is not looked at
C14_DepartureIffFiveRules ==
    (Classified /\ Len(Positions) >= 3 /\ WellFormed(Table)) =>
        \A i \in WithinGate :
            WithinGate = {i} =>
                (verdict = <<"departure", Table.order[i]>> <=> DepartureRules(i))

\* a departure was returned for a track that is descending
C14_Witness ==
    /\ Classified
    /\ Table = Single
    /\ verdict = <<"departure", "09">>
    /\ trends[1] < 0

\* the runways of the table whose rules the track satisfies
Matching == {i \in WithinGate : ArrivalRules(i) \/ DepartureRules(i)}

\* C15: when the rules hold for several runways, the answer names the first
\* of them in the iteration order of the table, nearest or not; the answer is
\* a function of the track and the table
C15_FirstMatchInOrder ==
    (Classified /\ Len(Positions) >= 3 /\ WellFormed(Table) /\ Matching # {}) =>
        \E i \in Matching :
            /\ \A j \in Matching : i <= j
            /\ verdict[2] = Table.order[i]
            /\ verdict[1] = IF ArrivalRules(i) THEN "arrival" ELSE "departure"

\* both thresholds match and the farther one, first in the table, is returned
C15_Witness ==
    /\ Classified
    /\ Len(Positions) >= 3
    /\ Table = InLine
    /\ Cardinality(Matching) = 2
    /\ verdict = <<"arrival", "09X">>
    /\ Abs(AlongTrack(Latest, Table.data["09"])) < Abs(AlongTrack(Latest, Table.data["09X"]))

\* the mean of field f over positions[i-1:j], times TrendScale
MeanOf(f, i, j) == (SumField(Positions, f, i, j) * TrendScale) \div (j - i + 1)

\* mean of the last min(3, n) samples minus mean of the first min(3, n)
MeanDifference(f) ==
    LET n == Len(Positions)
        m == Min(TrendWindow, n)
    IN  MeanOf(f, n - m + 1, n) - MeanOf(f, 1, m)

\* C16: both trends are 0 for an empty or one-sample track, and otherwise the
\* mean of the last min(3, n) samples minus the mean of the first min(3, n)
C16_TrendIsMeanDifference ==
    trends # <<>> =>
        IF Len(Positions) < 2
        THEN trends = <<0, 0>>
        ELSE trends = <<MeanDifference("alt"), MeanDifference("gs")>>

\* the trends of a four-sample track were read and neither is zero
C16_Witness ==
    /\ trends # <<>>
    /\ Len(Positions) = 4
    /\ trends[1] # 0
    /\ trends[2] # 0

\* C19: a runway table with a missing or non-finite true bearing is rejected
\* when it is loaded, so it is never the table the monitor holds
C19_MalformedTableRejected ==
    airport_data # <<>> => WellFormed(Table)

----------------------------------------------------------------------------
(* Properties of the ledger and of the tracks *)

\* C17: a callsign that is in a current set and has no entry in the history
\* map of that runway and kind has been in that set in every cycle since a
\* cycle at least 30 minutes old; a streak younger than 30 minutes has its
\* entry
C17_NoEntryOnlyPastWindow ==
    \A k \in StreakKeys :
        IsCurrent(k) =>
            /\ k[3] \notin DOMAIN HistoryOf(k) =>
                   (streak_start[k] # None /\ now - streak_start[k] >= HistoryWindow)
            /\ (streak_start[k] # None /\ now - streak_start[k] < HistoryWindow) =>
                   k[3] \in DOMAIN HistoryOf(k)

\* a callsign is current without an entry, its streak exactly 30 minutes old
C17_Witness ==
    \E k \in StreakKeys :
        /\ IsCurrent(k)
        /\ k[3] \notin DOMAIN HistoryOf(k)
        /\ now - streak_start[k] = HistoryWindow

\* C18: in every live track the sample times never decrease from one sample
\* to the next, and last_update is the time of the newest sample
C18_SamplesInTimeOrder ==
    \A cs \in DOMAIN aircraft_states :
        LET positions == aircraft_states[cs].positions
        IN  /\ \A i \in 1..(Len(positions) - 1) :
                   positions[i].time <= positions[i + 1].time
            /\ positions # <<>>
            /\ aircraft_states[cs].last_update = positions[Len(positions)].time

\* a track holds two samples of one batch and a later sample
C18_Witness ==
    \E cs \in DOMAIN aircraft_states :
        LET positions == aircraft_states[cs].positions
        IN  /\ Len(positions) >= 3
            /\ positions[1].time = positions[2].time
            /\ positions[2].time < positions[Len(positions)].time
            /\ aircraft_states[cs].last_update = now

\* the orders in which the callsigns of a set can be taken
Orders(S) ==
    {order \in [1..Cardinality(S) -> S] :
        \A i, j \in 1..Cardinality(S) : order[i] = order[j] => i = j}

\* the ledger and the current sets after the step
LedgerAfter ==
    [approach_history  |-> approach_history',
     departure_history |-> departure_history',
     new_approaches    |-> current_approaches',
     new_departures    |-> current_departures']

\* the cleaned history maps and the empty new sets the analysis loop starts from
LedgerBefore ==
    [approach_history  |-> CleanHistory(approach_history, now' - HistoryWindow),
     departure_history |-> CleanHistory(departure_history, now' - HistoryWindow),
     new_approaches    |-> [r \in RunwayIds |-> {}],
     new_departures    |-> [r \in RunwayIds |-> {}]]

\* C20: the history entries a cycle writes are those of the callsigns
\* classified into a set of which they were not a member after the previous
\* cycle, and the ledger and the sets after the cycle are the same for every
\* order in which the analysis loop takes the live tracks
C20_LedgerSameForEveryOrder ==
    [][CycleStep =>
          /\ \A order \in Orders(DOMAIN aircraft_states') :
                 AnalysisLoop(LedgerBefore, order, AnalyzeAll(aircraft_states'),
                              current_approaches, current_departures, now')
                     = LedgerAfter
          /\ \A k \in StreakKeys :
                 (/\ k[3] \in DOMAIN HistoryOf(k)'
                  /\ HistoryOf(k)[k[3]]' = now'
                  /\ ~(k[3] \in DOMAIN HistoryOf(k) /\ HistoryOf(k)[k[3]] = now'))
                 => (InCurrent(k, current_approaches', current_departures')
                     /\ ~IsCurrent(k))]_vars

\* two callsigns were classified as arriving on one runway in the same cycle,
\* one of them new and the other in its streak
C20_Witness ==
    \E r \in RunwayIds :
        /\ current_approaches[r] = {"A", "B"}
        /\ streak_start[<<"arrival", r, "A">>] # streak_start[<<"arrival", r, "B">>]
        /\ \E cs \in {"A", "B"} : streak_start[<<"arrival", r, cs>>] = now

----------------------------------------------------------------------------
(* Further properties of the classifier *)

\* C22: for integer headings and bearings in 0..359 the track difference is
\* in 0..180, is the smaller of d and 360 - d with d = |track - bearing|, and
\* is the same with the two angles exchanged
C22_TrackDiffIsSmallestAngle ==
    track_diff # None =>
        LET d == Abs(angles[1] - angles[2])
        IN  /\ track_diff \in 0..180
            /\ track_diff = Min(d, 360 - d)
            /\ track_diff = TrackDiff(angles[2], angles[1])

\* a difference computed where track - bearing + 180 is negative
C22_Witness ==
    /\ track_diff = 1
    /\ angles = <<0, 359>>
    /\ angles[1] - angles[2] + 180 < 0

\* C23: a track of two or three samples has both trends 0, and a track of
\* fewer than four samples gets "no operation" from every runway table whose
\* bearings are numbers
C23_NoOperationBeforeFourthSample ==
    /\ (trends # <<>> /\ Len(Positions) \in {2, 3}) => trends = <<0, 0>>
    /\ (Classified /\ Len(Positions) < 4 /\ WellFormed(Table)) => verdict = NoOp

\* a three-sample track on the approach, its newest sample lower and slower
\* than the two before, got trends of 0 and no operation
C23_Witness ==
    /\ Classified
    /\ Table = Single
    /\ Len(Positions) = 3
    /\ Latest.lat = 1 /\ Latest.lon < 0 /\ Latest.track = 92 /\ Latest.gs = 120
    /\ Latest.alt = 2000 /\ Positions[1].alt = 3200 /\ Positions[1].gs = 130
    /\ probe.falt = 0
    /\ trends = <<0, 0>>
    /\ verdict = NoOp

\* C30: for one runway the arrival rule and the departure rule never hold
\* together, and a newest sample whose along-track distance is exactly 0
\* matches neither rule of that runway
C30_RulesExcludeEachOther ==
    (Classified /\ Len(Positions) >= 3 /\ WellFormed(Table)) =>
        \A i \in 1..Len(Table.order) :
            LET rwy == Table.data[Table.order[i]]
            IN  /\ ~(IsArrival(probe.state, rwy, probe.falt)
                      /\ IsDeparture(probe.state, rwy, probe.falt))
                /\ AlongTrack(Latest, rwy) = 0 =>
                       /\ ~IsArrival(probe.state, rwy, probe.falt)
                       /\ ~IsDeparture(probe.state, rwy, probe.falt)
                       /\ verdict[2] # Table.order[i]

\* an accelerating, aligned, low track on the threshold got no operation
C30_Witness ==
    /\ Classified
    /\ Table = Single
    /\ Len(Positions) >= 4
    /\ AlongTrack(Latest, Table.data["09"]) = 0
    /\ trends[2] > 10 * TrendScale
    /\ Latest.gs > 40 /\ Latest.track = 92
    /\ Latest.alt - probe.falt < 1000
    /\ verdict = NoOp

----------------------------------------------------------------------------
(* Further properties of the engine *)

\* no part of the engine's state mentions the callsign
Forgotten(cs) ==
    /\ cs \notin DOMAIN aircraft_states
    /\ \A r \in RunwayIds :
           /\ cs \notin current_approaches[r]
           /\ cs \notin current_departures[r]
           /\ cs \notin DOMAIN approach_history[r]
           /\ cs \notin DOMAIN departure_history[r]

\* C21: when the batches stop holding valid records of a callsign while the
\* cycles go on and the clock advances, the track, the membership of every
\* current set and every history entry of the callsign are eventually gone,
\* and stay gone
C21_ExpiredCallsignForgotten == <>[]Forgotten("A")

\* "A" was arriving on 09 and nothing mentions it any more
C21_Witness ==
    /\ <<"arrival", "09", "A">> \in ended
    /\ cycles > QuietFrom
    /\ Forgotten("A")

\* the history map after a cycle that writes the entries first and cleans last
PruneLast(hist, new, current, current_time) ==
    LET written == [r \in RunwayIds |->
                       [cs \in DOMAIN hist[r] \cup (new[r] \ current[r]) |->
                           IF cs \in new[r] \ current[r] THEN current_time
                           ELSE hist[r][cs]]]
    IN  [r \in RunwayIds |->
            [cs \in {c \in DOMAIN written[r] : written[r][c] > current_time - 1800}
                |-> written[r][cs]]]

\* C24: the history maps after a cycle are those that a cycle cleaning the
\* history after the ledger update, with the same cutoff test, would leave
C24_PruneFirstOrLast ==
    [][CycleStep =>
          /\ approach_history' = PruneLast(approach_history, current_approaches',
                                           current_approaches, now')
          /\ departure_history' = PruneLast(departure_history, current_departures',
                                            current_departures, now')]_vars

\* the cycle cleaned an entry of a callsign and wrote a new one for it
C24_Witness ==
    \E e \in pruned :
        /\ e[3] \in DOMAIN HistoryOf(<<e[1], e[2], e[3]>>)
        /\ HistoryOf(<<e[1], e[2], e[3]>>)[e[3]] = now

\* the current sets the callsign is a member of
CurrentSetsOf(cs) == {k \in StreakKeys : k[3] = cs /\ IsCurrent(k)}

\* C25: after every cycle a callsign is a member of at most one current set
\* over all runways and both kinds
C25_AtMostOneCurrentSet ==
    \A cs \in Callsigns : Cardinality(CurrentSetsOf(cs)) <= 1

\* a callsign that was arriving on 09 is now departing from 27
C25_Witness ==
    /\ <<"arrival", "09", "A">> \in ended
    /\ CurrentSetsOf("A") = {<<"departure", "27", "A">>}

\* C26: after every cycle a callsign in a current set has a track that was
\* updated less than 120 s before the cycle time and holds three samples or
\* more, and a track the sweep of the cycle removed is in no current set
C26_CurrentHasLiveTrack ==
    /\ \A k \in StreakKeys :
           IsCurrent(k) =>
               /\ k[3] \in DOMAIN aircraft_states
               /\ now - aircraft_states[k[3]].last_update < 120
               /\ Len(aircraft_states[k[3]].positions) >= 3
    /\ \A e \in swept : CurrentSetsOf(e[1]) = {}

\* the third cycle swept the track of a callsign that the second cycle had
\* classified
C26_Witness ==
    /\ cycles = 3
    /\ \E e \in swept : \E k \in ended : k[3] = e[1]

\* C27: a track that gets no sample in a cycle and is not yet expired is
\* left as it was, its callsign is in the same current sets as before, the
\* start of its streak is the same and its history entries are not rewritten
C27_UnfedTrackKeepsStreak ==
    [][CycleStep =>
          \A cs \in DOMAIN aircraft_states :
              (/\ NoSampleFor(cs, traffic_data')
               /\ now' - aircraft_states[cs].last_update < 120)
              => /\ cs \in DOMAIN aircraft_states'
                 /\ aircraft_states'[cs] = aircraft_states[cs]
                 /\ \A k \in StreakKeys :
                        k[3] = cs =>
                            /\ InCurrent(k, current_approaches', current_departures')
                                   <=> IsCurrent(k)
                            /\ streak_start'[k] = streak_start[k]
                            /\ cs \in DOMAIN HistoryOf(k)' =>
                                   /\ cs \in DOMAIN HistoryOf(k)
                                   /\ HistoryOf(k)'[cs] = HistoryOf(k)[cs]
                            /\ (cs \in DOMAIN HistoryOf(k)
                                 /\ now' - HistoryOf(k)[cs] < 1800)
                                   => cs \in DOMAIN HistoryOf(k)']_vars

\* a callsign is in its streak after a cycle that gave its track no sample
C27_Witness ==
    \E k \in StreakKeys :
        /\ IsCurrent(k)
        /\ NoSampleFor(k[3], traffic_data)
        /\ aircraft_states[k[3]].last_update < now
        /\ streak_start[k] < now
        /\ HistoryOf(k)[k[3]] = streak_start[k]

\* C28: a history entry is removed only when it is 30 minutes old or more,
\* and it keeps its timestamp unless its callsign starts a new streak in the
\* same set: leaving the set, changing runway or kind, or losing the track
\* leaves it as it was
C28_EntriesRemovedOnlyByAge ==
    [][CycleStep =>
          \A k \in StreakKeys :
              k[3] \in DOMAIN HistoryOf(k) =>
                  /\ k[3] \notin DOMAIN HistoryOf(k)'
                         => now' - HistoryOf(k)[k[3]] >= 1800
                  /\ (/\ now' - HistoryOf(k)[k[3]] < 1800
                      /\ ~(InCurrent(k, current_approaches', current_departures')
                            /\ ~IsCurrent(k)))
                         => /\ k[3] \in DOMAIN HistoryOf(k)'
                            /\ HistoryOf(k)'[k[3]] = HistoryOf(k)[k[3]]]_vars

\* a callsign that landed on 09 and now rolls from 27 is in the history of both
C28_Witness ==
    /\ "A" \in DOMAIN approach_history["09"]
    /\ "A" \in DOMAIN departure_history["27"]
    /\ "A" \in current_departures["27"]
    /\ "A" \notin current_approaches["09"]
    /\ approach_history["09"]["A"] < departure_history["27"]["A"]

\* the 30-minute count of <<kind, runway>> that the display shows
CountOf(snapshot, kind, r) ==
    IF kind = "arrival" THEN snapshot[r].arr_count ELSE snapshot[r].dep_count

\* C29: the count of a runway and kind is the number of distinct callsigns
\* with an entry in that history map; a callsign that starts a new streak
\* while its earlier entry is in the map gets the entry overwritten, and the
\* count grows by no more than the callsigns that start a streak without one
C29_CountIsDistinctCallsigns ==
    [][CycleStep =>
          \A kind \in {"arrival", "departure"} : \A r \in RunwayIds :
              LET hist    == HistoryOf(<<kind, r, "A">>)
                  histp   == HistoryOf(<<kind, r, "A">>)'
                  started == {cs \in Callsigns :
                                 /\ InCurrent(<<kind, r, cs>>, current_approaches',
                                              current_departures')
                                 /\ ~IsCurrent(<<kind, r, cs>>)}
              IN  /\ CountOf(Snapshot', kind, r)
                         = Cardinality({cs \in Callsigns : cs \in DOMAIN histp})
                  /\ \A cs \in started : histp[cs] = now'
                  /\ CountOf(Snapshot', kind, r)
                         <= CountOf(Snapshot, kind, r)
                            + Cardinality(started \ DOMAIN hist)]_vars

\* a callsign has started a second streak in a set and is counted once
C29_Witness ==
    \E k \in ended :
        /\ IsCurrent(k)
        /\ now > 0
        /\ streak_start[k] = now
        /\ CountOf(Snapshot, k[1], k[2]) = 1

=============================================================================
